---- MODULE Spec2Model ----
(***************************************************************************)
(* Model of pkg/discovery/dns/provider.go: the Provider's cache of         *)
(* resolved addresses, refreshed by Resolve and read by Addresses, both    *)
(* under the Provider's mutex.  Strings are sequences of one-character     *)
(* strings, so that strings.SplitN is computed and not assumed.            *)
(***************************************************************************)
EXTENDS Integers, Sequences, FiniteSets, TLC

\* ---------------------------------------------------------------- bounds
MaxLen == 2      \* longest input list given to Resolve
MaxLookups == 3  \* lookups after which no Resolve call with a lookup is made

\* Goroutines calling into the one Provider.
Procs == {1, 2}

\* The address specifications callers pass in: a literal, a tagged name,
\* and a tagged name that itself contains "+".
Specs == { <<"a">>, <<"d", "+", "a">>, <<"s", "+", "a", "+", "b">> }

SeqsUpTo(S, n) == UNION { [1..k -> S] : k \in 0..n }

InputLists == SeqsUpTo(Specs, MaxLen)

\* What a successful lookup can return: no host, or the host:port strings
\* "b" and "c" in this order.
HostLists == { << >>, << <<"b">>, <<"c">> >> }

Range(s) == { s[k] : k \in DOMAIN s }

\* ------------------------------------------------------------ Go helpers
\* Index of the last "+" of s, 0 when there is none.
IndexPlusLast(s) ==
  IF \E k \in 1..Len(s) : s[k] = "+"
    THEN CHOOSE k \in 1..Len(s) :
           s[k] = "+" /\ \A j \in (k+1)..Len(s) : s[j] # "+"
    ELSE 0

\* Index of the first "+" of s, 0 when there is none.
IndexPlus(s) ==
  IF \E k \in 1..Len(s) : s[k] = "+"
    THEN CHOOSE k \in 1..Len(s) : s[k] = "+" /\ \A j \in 1..(k-1) : s[j] # "+"
    ELSE 0

\* strings.SplitN(addr, "+", 2)
SplitN2(addr) ==
  IF IndexPlus(addr) = 0
    THEN << addr >>
    ELSE << SubSeq(addr, 1, IndexPlus(addr) - 1),
            SubSeq(addr, IndexPlus(addr) + 1, Len(addr)) >>

\* An entry with a "+": qtype+name, to be looked up.
Tagged(addr) == Len(SplitN2(addr)) = 2

\* The number of entries of as that are looked up.
NumTagged(as) == Cardinality({ n \in 1..Len(as) : Tagged(as[n]) })

\* A membership test that accepts str as a substring of an element.
containsSubstring(slice, str) ==
  \E k \in 1..Len(slice) : \E n \in 0..(Len(slice[k]) - Len(str)) :
    SubSeq(slice[k], n + 1, n + Len(str)) = str

contains(slice, str) == \E k \in 1..Len(slice) : str = slice[k]

\* An assignment that appends to the stored slice.
MapPutAppend(m, k, v) ==
  [x \in (DOMAIN m) \cup {k} |->
     IF x = k THEN (IF k \in DOMAIN m THEN m[k] \o v ELSE v) ELSE m[x]]

\* p.resolved[k] = v
MapPut(m, k, v) == [x \in (DOMAIN m) \cup {k} |-> IF x = k THEN v ELSE m[x]]

\* delete(p.resolved, k) for every k of ks
MapDelete(m, ks) == [x \in (DOMAIN m) \ ks |-> m[x]]

EmptyMap == [x \in {} |-> <<>>]

Reverse(s) == [n \in 1..Len(s) |-> s[Len(s) + 1 - n]]

\* A flattening that appends each slice back to front.
RECURSIVE FlatteningsReversed(_)
FlatteningsReversed(m) ==
  IF DOMAIN m = {}
    THEN { <<>> }
    ELSE UNION { { Reverse(m[k]) \o rest :
                     rest \in FlatteningsReversed(MapDelete(m, {k})) }
                 : k \in DOMAIN m }

\* The results the range loop of Addresses can build: Go leaves the
\* iteration order of a map unspecified, so every order of the keys.
RECURSIVE Flattenings(_)
Flattenings(m) ==
  IF DOMAIN m = {}
    THEN { <<>> }
    ELSE UNION { { m[k] \o rest : rest \in Flattenings(MapDelete(m, {k})) }
                 : k \in DOMAIN m }

\* -------------------------------------------------------------- state
VARIABLES
  resolved,   \* Provider.resolved: map from address spec to resolved targets
  mu,         \* Provider's sync.Mutex: 0 when free, else the holder
  pc,         \* per goroutine: where it is in Resolve or Addresses
  addrs,      \* per goroutine: the addrs argument of its Resolve call
  idx,        \* per goroutine: position of the range loop over addrs
  result,     \* per goroutine: the result local of Addresses
  ret,        \* per goroutine: what its last call returned
  calls,      \* history: the Resolver invocations of the current Resolve call
  lastAddrs,  \* history: input list of the most recently completed Resolve
  lastCalls,  \* history: Resolver invocations of that call
  committed,  \* history: the cache when the last Resolve returned
  lastGood,   \* history: per requested spec, what its latest store wrote
  cancelled,  \* per goroutine: 0 while the ctx of its Resolve call is live,
              \* else the entry during whose lookup ctx was cancelled
  lookups,    \* dnsResolveLookupsCount
  failures,   \* dnsResolveFailuresCount
  wantLookups,  \* history: tagged entries of the Resolve calls that returned
  wantFailures, \* history: failed lookups of the Resolve calls that returned
  scenario    \* "sequential": goroutine 1 calls alone;
              \* "observed": goroutine 1 calls alone, the two counters and
              \* the cancellation of ctx are followed, and the history of
              \* the last call (lastAddrs, lastCalls) is not kept;
              \* "concurrent": every goroutine calls, and the history of
              \* calls (calls, lastAddrs, lastCalls) is not kept;
              \* "fair": as "concurrent", with input lists in one order

meters == << lookups, failures, wantLookups, wantFailures >>

vars == << resolved, mu, pc, addrs, idx, result, ret, calls,
           lastAddrs, lastCalls, committed, lastGood, scenario,
           cancelled, meters >>

\* The goroutines that call into the Provider.
Callers == IF scenario \in {"concurrent", "fair"} THEN Procs ELSE {1}

\* Input lists whose entries are all different and stand in one order
\* (the specs have different lengths: shorter first).
Ascending(as) == \A m, n \in 1..Len(as) : m < n => Len(as[m]) < Len(as[n])

\* The input lists the callers pass in.
Workload ==
  IF scenario = "fair" THEN { as \in InputLists : Ascending(as) }
                       ELSE InputLists

NoRet == [op |-> "none"]

Start ==
  /\ resolved = EmptyMap
  /\ mu = 0
  /\ pc = [p \in Procs |-> "idle"]
  /\ addrs = [p \in Procs |-> <<>>]
  /\ idx = [p \in Procs |-> 0]
  /\ result = [p \in Procs |-> <<>>]
  /\ ret = [p \in Procs |-> NoRet]
  /\ calls = [p \in Procs |-> <<>>]
  /\ lastAddrs = <<>>
  /\ lastCalls = <<>>
  /\ committed = EmptyMap
  /\ lastGood = EmptyMap
  /\ cancelled = [p \in Procs |-> 0]
  /\ lookups = 0
  /\ failures = 0
  /\ wantLookups = 0
  /\ wantFailures = 0

Init == Start /\ scenario = "sequential"

InitConc == Start /\ scenario = "concurrent"

InitObs == Start /\ scenario = "observed"

InitFair == Start /\ scenario = "fair"

\* A Lock that does not exclude.
CanLockAlways(p) == TRUE

\* sync.Mutex.Lock returns only when the mutex is free.
CanLock(p) == mu = 0

\* A return that leaves the mutex with p.
HolderKept(p) == p

\* The mutex after the deferred p.Unlock().
Unlocked(p) == 0

\* A Resolve that reports a failed lookup to its caller.
ResolveErrorOfLookups(cs) ==
  IF \E j \in 1..Len(cs) : cs[j].failed THEN "lookup failed" ELSE "nil"

\* What Resolve returns.
ResolveError(cs) == "nil"

\* A pruning that keeps every stored key.
entriesToDeleteNone(m, as) == {}

\* The keys the pruning loops delete.
entriesToDelete(m, as) == { k \in DOMAIN m : ~ contains(as, k) }

\* ------------------------------------------------------------- Resolve
ResolveCall(p, as) ==
  /\ p \in Callers
  /\ as \in Workload
  /\ scenario = "observed" => lookups + NumTagged(as) <= MaxLookups
  /\ pc[p] = "idle"
  /\ pc' = [pc EXCEPT ![p] = "r_lock"]
  /\ addrs' = [addrs EXCEPT ![p] = as]
  /\ UNCHANGED << resolved, mu, idx, result, ret, calls,
                  lastAddrs, lastCalls, committed, lastGood, scenario,
                  cancelled, meters >>

ResolveLock(p) ==
  /\ pc[p] = "r_lock"
  /\ CanLock(p)
  /\ mu' = p
  /\ pc' = [pc EXCEPT ![p] = "r_loop"]
  /\ idx' = [idx EXCEPT ![p] = 1]
  /\ UNCHANGED << resolved, addrs, result, ret, calls,
                  lastAddrs, lastCalls, committed, lastGood, scenario,
                  cancelled, meters >>

InLoop(p) == pc[p] = "r_loop" /\ idx[p] <= Len(addrs[p])

\* A literal stored with no target.
LiteralHostsNone(addr) == << >>

\* What is stored for an entry without "+".
LiteralHosts(addr) == << addr >>

\* break: the range loop is left.
BreakAt(as, i) == Len(as) + 1

\* continue: the range loop goes on with the entry after entry i.
ContinueAt(as, i) == i + 1

\* An entry without "+": stored as its own only target.
ResolveLiteral(p) ==
  /\ InLoop(p)
  /\ LET addr == addrs[p][idx[p]] IN
       /\ Len(SplitN2(addr)) # 2
       /\ resolved' = MapPut(resolved, addr, LiteralHosts(addr))
       /\ lastGood' = [x \in (DOMAIN lastGood) \cup {addr} |->
                          IF x = addr THEN << addr >> ELSE lastGood[x]]
  /\ idx' = [idx EXCEPT ![p] = ContinueAt(addrs[p], idx[p])]
  /\ UNCHANGED << mu, pc, addrs, result, ret, calls,
                  lastAddrs, lastCalls, committed, scenario,
                  cancelled, meters >>

\* The record of one p.resolver.Resolve(ctx, name, qtype) invocation.
Invocation(p, failed, hosts) ==
  LET addr == addrs[p][idx[p]] IN
    [ at |-> idx[p], qtype |-> SplitN2(addr)[1], name |-> SplitN2(addr)[2],
      failed |-> failed, hosts |-> hosts ]

\* The log cs with invocation c added, where the history is kept.
Logged(cs, c) ==
  IF scenario \in {"sequential", "observed"} THEN Append(cs, c) ELSE cs

\* The history count c with n more, where the counters are followed.
Noted(c, n) == IF scenario = "observed" THEN c + n ELSE c

\* A failure counter that is not incremented.
FailureIncNot(c) == c

\* prometheus.Counter.Inc(), where the counters are followed.
Inc(c) == IF scenario = "observed" THEN c + 1 ELSE c

\* dnsResolveFailuresCount.Inc()
FailureInc(c) == Inc(c)

\* Whether the caller can cancel ctx during a lookup of p's call.
CancelChoices(p) ==
  IF scenario = "observed" /\ cancelled[p] = 0 THEN BOOLEAN ELSE {FALSE}

\* A tagged entry whose lookup succeeds with hosts.
ResolveLookupOk(p, hosts) ==
  /\ InLoop(p)
  /\ LET addr == addrs[p][idx[p]] IN
       /\ Len(SplitN2(addr)) = 2
       /\ resolved' = MapPut(resolved, addr, hosts)
       /\ lastGood' = [x \in (DOMAIN lastGood) \cup {addr} |->
                          IF x = addr THEN hosts ELSE lastGood[x]]
  /\ calls' = [calls EXCEPT ![p] = Logged(@, Invocation(p, FALSE, hosts))]
  /\ lookups' = Inc(lookups)
  /\ idx' = [idx EXCEPT ![p] = @ + 1]
  /\ UNCHANGED << mu, pc, addrs, result, ret,
                  lastAddrs, lastCalls, committed, scenario,
                  cancelled, failures, wantLookups, wantFailures >>

\* A failed lookup that stores the nil slice it got.
AfterFailureStoresNil(m, addr) == MapPut(m, addr, << >>)

\* A failed lookup that puts back what the cache held before the call.
AfterFailureRestores(m, addr) ==
  IF addr \in DOMAIN committed THEN MapPut(m, addr, committed[addr])
                               ELSE MapDelete(m, {addr})

\* A failed lookup that drops the entry.
AfterFailureDeletes(m, addr) == MapDelete(m, {addr})

\* What a failed lookup leaves in the map.
AfterFailure(m, addr) == m

\* A tagged entry whose lookup fails; with cancel, it fails because the
\* caller cancels ctx while it runs.
ResolveLookupFail(p, cancel) ==
  /\ InLoop(p)
  /\ cancel \in CancelChoices(p)
  /\ cancelled' = [cancelled EXCEPT ![p] = IF cancel THEN idx[p] ELSE @]
  /\ lookups' = Inc(lookups)
  /\ failures' = FailureInc(failures)
  /\ LET addr == addrs[p][idx[p]] IN
       /\ Len(SplitN2(addr)) = 2
       /\ resolved' = AfterFailure(resolved, addr)
  /\ calls' = [calls EXCEPT ![p] = Logged(@, Invocation(p, TRUE, <<>>))]
  /\ idx' = [idx EXCEPT ![p] = ContinueAt(addrs[p], idx[p])]
  /\ UNCHANGED << mu, pc, addrs, result, ret,
                  lastAddrs, lastCalls, committed, lastGood, scenario,
                  wantLookups, wantFailures >>

\* The two loops after the range over addrs.
ResolvePrune(p) ==
  /\ pc[p] = "r_loop"
  /\ idx[p] > Len(addrs[p])
  /\ resolved' = MapDelete(resolved, entriesToDelete(resolved, addrs[p]))
  /\ lastGood' = [x \in (DOMAIN lastGood) \cap Range(addrs[p]) |-> lastGood[x]]
  /\ pc' = [pc EXCEPT ![p] = "r_ret"]
  /\ UNCHANGED << mu, addrs, idx, result, ret, calls,
                  lastAddrs, lastCalls, committed, scenario,
                  cancelled, meters >>

\* return nil, and the deferred p.Unlock().
ResolveReturn(p) ==
  /\ pc[p] = "r_ret"
  /\ mu' = Unlocked(p)
  /\ ret' = [ret EXCEPT ![p] = [op |-> "Resolve", err |-> ResolveError(calls[p])]]
  /\ pc' = [pc EXCEPT ![p] = "returned"]
  /\ lastAddrs' = IF scenario = "sequential" THEN addrs[p] ELSE <<>>
  /\ lastCalls' = IF scenario = "sequential" THEN calls[p] ELSE <<>>
  /\ committed' = resolved
  /\ addrs' = [addrs EXCEPT ![p] = <<>>]
  /\ idx' = [idx EXCEPT ![p] = 0]
  /\ calls' = [calls EXCEPT ![p] = <<>>]
  /\ cancelled' = [cancelled EXCEPT ![p] = 0]
  /\ wantLookups' = Noted(wantLookups, NumTagged(addrs[p]))
  /\ wantFailures' =
       Noted(wantFailures,
             Cardinality({ j \in 1..Len(calls[p]) : calls[p][j].failed }))
  /\ UNCHANGED << resolved, result, lastGood, scenario, lookups, failures >>

\* ----------------------------------------------------------- Addresses
AddressesCall(p) ==
  /\ p \in Callers
  /\ pc[p] = "idle"
  /\ pc' = [pc EXCEPT ![p] = "a_lock"]
  /\ UNCHANGED << resolved, mu, addrs, idx, result, ret, calls,
                  lastAddrs, lastCalls, committed, lastGood, scenario,
                  cancelled, meters >>

AddressesLock(p) ==
  /\ pc[p] = "a_lock"
  /\ CanLock(p)
  /\ mu' = p
  /\ pc' = [pc EXCEPT ![p] = "a_read"]
  /\ UNCHANGED << resolved, addrs, idx, result, ret, calls,
                  lastAddrs, lastCalls, committed, lastGood, scenario,
                  cancelled, meters >>

\* The range loop over p.resolved, appending each value to result.
AddressesRead(p) ==
  /\ pc[p] = "a_read"
  /\ \E r \in Flattenings(resolved) : result' = [result EXCEPT ![p] = r]
  /\ pc' = [pc EXCEPT ![p] = "a_ret"]
  /\ UNCHANGED << resolved, mu, addrs, idx, ret, calls,
                  lastAddrs, lastCalls, committed, lastGood, scenario,
                  cancelled, meters >>

\* A returned slice that is a view of the map m.
CallerSeesMap(r, m) == CHOOSE f \in Flattenings(m) : TRUE

\* What the caller reads in the returned slice r while the map is m: r was
\* built by append into a slice of its own, and Resolve assigns map values,
\* it never writes into a stored slice.
CallerSees(r, m) == r

\* return result, and the deferred p.Unlock().
AddressesReturn(p) ==
  /\ pc[p] = "a_ret"
  /\ mu' = Unlocked(p)
  /\ ret' = [ret EXCEPT ![p] = [op |-> "Addresses", val |-> result[p]]]
  /\ pc' = [pc EXCEPT ![p] = "returned"]
  /\ result' = [result EXCEPT ![p] = <<>>]
  /\ UNCHANGED << resolved, addrs, idx, calls,
                  lastAddrs, lastCalls, committed, lastGood, scenario,
                  cancelled, meters >>

\* The caller has its return value and is ready for its next call.
CallerContinues(p) ==
  /\ pc[p] = "returned"
  /\ pc' = [pc EXCEPT ![p] = "idle"]
  /\ ret' = [ret EXCEPT ![p] = NoRet]
  /\ UNCHANGED << resolved, mu, addrs, idx, result, calls,
                  lastAddrs, lastCalls, committed, lastGood, scenario,
                  cancelled, meters >>

Next ==
  \/ \E p \in Procs, as \in InputLists : ResolveCall(p, as)
  \/ \E p \in Procs : ResolveLock(p)
  \/ \E p \in Procs : ResolveLiteral(p)
  \/ \E p \in Procs, hosts \in HostLists : ResolveLookupOk(p, hosts)
  \/ \E p \in Procs, cancel \in BOOLEAN : ResolveLookupFail(p, cancel)
  \/ \E p \in Procs : ResolvePrune(p)
  \/ \E p \in Procs : ResolveReturn(p)
  \/ \E p \in Procs : AddressesCall(p)
  \/ \E p \in Procs : AddressesLock(p)
  \/ \E p \in Procs : AddressesRead(p)
  \/ \E p \in Procs : AddressesReturn(p)
  \/ \E p \in Procs : CallerContinues(p)

Spec == Init /\ [][Next]_vars

SpecConc == InitConc /\ [][Next]_vars

SpecObs == InitObs /\ [][Next]_vars

\* The steps goroutine p takes inside a call once it has the mutex; the
\* lookups are among them, as every Resolver call returns.
Runs(p) ==
  \/ ResolveLiteral(p)
  \/ \E hosts \in HostLists : ResolveLookupOk(p, hosts)
  \/ \E cancel \in BOOLEAN : ResolveLookupFail(p, cancel)
  \/ ResolvePrune(p)
  \/ ResolveReturn(p)
  \/ AddressesRead(p)
  \/ AddressesReturn(p)

\* The scheduler runs every runnable goroutine, and a goroutine blocked in
\* Lock gets the mutex if it is free again and again (sync.Mutex hands the
\* mutex to a starving waiter).  When callers call is left to them.
SpecFair ==
  /\ InitFair /\ [][Next]_vars
  /\ \A p \in Procs : /\ WF_vars(Runs(p))
                       /\ SF_vars(ResolveLock(p))
                       /\ SF_vars(AddressesLock(p))

TypeOK ==
  /\ DOMAIN resolved \subseteq Specs
  /\ mu \in {0} \cup Procs

\* ------------------------------------------------------------ properties
ResolveInProgress == \E p \in Procs : pc[p] \in {"r_lock", "r_loop", "r_ret"}

\* The step in which p's Resolve call returns.
Returns(p) == pc[p] = "r_ret" /\ pc'[p] = "returned"

\* Invocation j of log cs (made for input list as) succeeded and no later
\* invocation for the same spec did.
LastOk(cs, as, j) ==
  /\ ~ cs[j].failed
  /\ \A j2 \in (j+1)..Len(cs) : as[cs[j2].at] = as[cs[j].at] => cs[j2].failed

\* In the flattened sequence f of map m, hosts stands as one block and
\* the rest of f is a flattening of the other keys of m.
ContributesExactly(f, m, k, hosts) ==
  \E n \in 0..(Len(f) - Len(hosts)) :
    /\ SubSeq(f, n + 1, n + Len(hosts)) = hosts
    /\ (SubSeq(f, 1, n) \o SubSeq(f, n + Len(hosts) + 1, Len(f)))
          \in Flattenings(MapDelete(m, {k}))

\* C1: whenever no Resolve call is in progress, every key of the cache is
\* an element of the input list of the most recently completed Resolve
\* call; and when a Resolve call returns, every key the cache held before
\* it that its input list lacks is no longer a key (deleted, not emptied).
C1_KeysWithinLastInput ==
  /\ [](~ ResolveInProgress => DOMAIN resolved \subseteq Range(lastAddrs))
  /\ [][\A p \in Procs : Returns(p) =>
          \A k \in (DOMAIN committed) \ Range(addrs[p]) :
             k \notin DOMAIN resolved']_vars

C1_Witness ==
  /\ ~ ResolveInProgress
  /\ pc[1] = "returned" /\ ret[1].op = "Resolve"
  /\ Len(lastAddrs) = 2
  /\ DOMAIN resolved # {}
  /\ DOMAIN resolved # Range(lastAddrs)

\* C2: a failed lookup leaves the cache entry of its spec exactly as it
\* was before the entry was processed (present with the same targets, or
\* absent), and a key leaves the cache only in the pruning of a call whose
\* input list lacks it.
C2_FailureKeepsEntry ==
  [][\A p \in Procs :
       /\ (InLoop(p) /\ Len(calls'[p]) = Len(calls[p]) + 1
                     /\ calls'[p][Len(calls'[p])].failed) =>
            LET addr == addrs[p][idx[p]] IN
              /\ (addr \in DOMAIN resolved) <=> (addr \in DOMAIN resolved')
              /\ addr \in DOMAIN resolved => resolved'[addr] = resolved[addr]
       /\ \A k \in (DOMAIN resolved) \ (DOMAIN resolved') :
            \E q \in Procs : /\ pc[q] = "r_loop" /\ ~ InLoop(q)
                             /\ k \notin Range(addrs[q])]_vars

\* The first lookup of a call has just failed for a spec whose entry, stored
\* by an earlier call, is still there with its target.
C2_Witness ==
  \E p \in Procs :
    /\ pc[p] = "r_loop" /\ idx[p] > 1
    /\ Len(calls[p]) = 1 /\ calls[p][1].failed /\ calls[p][1].at = idx[p] - 1
    /\ LET addr == addrs[p][idx[p] - 1] IN
         /\ addr \in DOMAIN committed /\ committed[addr] # << >>
         /\ addr \in DOMAIN resolved /\ resolved[addr] = committed[addr]

\* C3: in a Resolve call the Resolver is invoked once for each tagged entry
\* processed so far and for no other, in input order, with the entry's
\* split; the loop is left only after the last entry, whatever failed; and
\* the cache holds, for every spec with a successful lookup in the call, the
\* hosts of its latest successful lookup.
C3_FailureIsolation ==
  \A p \in Procs : pc[p] \in {"r_loop", "r_ret"} =>
    LET as == addrs[p]
        cs == calls[p]
        done == 1..(idx[p] - 1)
    IN /\ idx[p] \in 1..(Len(as) + 1)
       /\ pc[p] = "r_ret" => idx[p] = Len(as) + 1
       /\ Len(cs) = Cardinality({ n \in done : Tagged(as[n]) })
       /\ \A j \in 1..Len(cs) :
            /\ cs[j].at \in done
            /\ Tagged(as[cs[j].at])
            /\ << cs[j].qtype, cs[j].name >> = SplitN2(as[cs[j].at])
            /\ \A j2 \in (j+1)..Len(cs) : cs[j2].at > cs[j].at
            /\ LastOk(cs, as, j) =>
                 /\ as[cs[j].at] \in DOMAIN resolved
                 /\ resolved[as[cs[j].at]] = cs[j].hosts

\* A call is about to return whose first lookup failed and whose second,
\* for another spec, succeeded with a host that is in the cache.
C3_Witness ==
  \E p \in Procs :
    /\ pc[p] = "r_ret" /\ Len(calls[p]) = 2
    /\ calls[p][1].failed /\ ~ calls[p][2].failed
    /\ addrs[p][1] # addrs[p][2]
    /\ calls[p][2].hosts # << >>
    /\ resolved[addrs[p][2]] = calls[p][2].hosts

\* C4: what Addresses has read is a flattening of the cache as it was when
\* the last Resolve call returned (or of the initial cache): never of a
\* cache that a Resolve call in progress has partly updated or not pruned.
C4_AddressesSeesCommitted ==
  \A p \in Procs : pc[p] \in {"a_read", "a_ret"} =>
    /\ resolved = committed
    /\ pc[p] = "a_ret" => result[p] \in Flattenings(committed)

\* Addresses has read a non-empty cache while a Resolve call of another
\* goroutine waits for the mutex.
C4_Witness ==
  \E p, q \in Procs :
    /\ pc[p] = "a_ret" /\ result[p] # << >>
    /\ pc[q] = "r_lock" /\ Len(addrs[q]) = 2

\* C5 as stated: after a Resolve call whose input list lacks a key A that
\* the cache held before, no result of Addresses contains a target that A
\* resolved to.
C5_NoFormerTargetAtAll ==
  [][\A p \in Procs : Returns(p) =>
       \A A \in (DOMAIN committed) \ Range(addrs[p]) :
         \A f \in Flattenings(resolved') :
           Range(committed[A]) \cap Range(f) = {}]_vars

\* C5 amended: after such a call A is not a key of the cache, and a target
\* that A resolved to is in a result of Addresses only if a spec of the new
\* input list resolves to it now.
C5_PrunedKeyContributesNothing ==
  [][\A p \in Procs : Returns(p) =>
       \A A \in (DOMAIN committed) \ Range(addrs[p]) :
         /\ A \notin DOMAIN resolved'
         /\ \A f \in Flattenings(resolved') :
              \A t \in Range(committed[A]) \cap Range(f) :
                \E k \in Range(addrs[p]) \cap DOMAIN resolved' :
                  t \in Range(resolved'[k])]_vars

\* A call is about to return that pruned a key with a target and left
\* another key in the cache.
C5_Witness ==
  \E p \in Procs :
    /\ pc[p] = "r_ret"
    /\ \E A \in (DOMAIN committed) \ Range(addrs[p]) :
         committed[A] # << >> /\ A \notin DOMAIN resolved
    /\ DOMAIN resolved # {}

\* C6: once a Resolve call has returned, the cache holds for every spec the
\* call resolved successfully exactly the hosts the Resolver returned in the
\* spec's latest successful lookup, as a present key also when they are
\* empty, and every result of Addresses has those hosts as that spec's
\* whole share.
C6_SuccessStored ==
  ~ ResolveInProgress =>
    \A j \in 1..Len(lastCalls) : LastOk(lastCalls, lastAddrs, j) =>
      LET addr == lastAddrs[lastCalls[j].at] IN
        /\ addr \in DOMAIN resolved
        /\ resolved[addr] = lastCalls[j].hosts
        /\ \A f \in Flattenings(resolved) :
             ContributesExactly(f, resolved, addr, lastCalls[j].hosts)

\* The last call resolved one spec to no host and another to two hosts, and
\* both are keys of the cache.
C6_Witness ==
  /\ ~ ResolveInProgress
  /\ Len(lastCalls) = 2
  /\ ~ lastCalls[1].failed /\ ~ lastCalls[2].failed
  /\ lastAddrs[1] # lastAddrs[2]
  /\ lastCalls[1].hosts = << >> /\ lastCalls[2].hosts # << >>
  /\ resolved[lastAddrs[1]] = << >>
  /\ resolved[lastAddrs[2]] = lastCalls[2].hosts

\* C7: once a Resolve call has returned, every literal entry of its input
\* list is a key of the cache with itself as its only target, the Resolver
\* was not invoked for it, and every result of Addresses, the one of a
\* following Addresses call included, contains it.
C7_LiteralStored ==
  ~ ResolveInProgress =>
    \A n \in 1..Len(lastAddrs) : ~ Tagged(lastAddrs[n]) =>
      LET addr == lastAddrs[n] IN
        /\ addr \in DOMAIN resolved
        /\ resolved[addr] = << addr >>
        /\ \A j \in 1..Len(lastCalls) : lastCalls[j].at # n
        /\ \A f \in Flattenings(resolved) : addr \in Range(f)
        /\ \A p \in Procs : pc[p] = "a_ret" => addr \in Range(result[p])

\* Addresses has read the cache after a call with a literal entry and a
\* failed lookup, and its result has the literal.
C7_Witness ==
  \E p \in Procs :
    /\ pc[p] = "a_ret"
    /\ Len(lastAddrs) = 2 /\ Len(lastCalls) = 1 /\ lastCalls[1].failed
    /\ \E n \in 1..2 : ~ Tagged(lastAddrs[n]) /\ lastAddrs[n] \in Range(result[p])

\* C8: every key of the cache holds what the latest successful store for
\* it wrote, and a key's entry changes only in a step that stores for it (a
\* literal entry or a successful lookup) or in the pruning of a call whose
\* input list lacks it.
C8_LastKnownGood ==
  /\ [](\A k \in DOMAIN resolved :
          k \in DOMAIN lastGood /\ resolved[k] = lastGood[k])
  /\ [][\A k \in Specs :
          ( \/ (k \in DOMAIN resolved) # (k \in DOMAIN resolved')
            \/ /\ k \in DOMAIN resolved /\ k \in DOMAIN resolved'
               /\ resolved[k] # resolved'[k] ) =>
          \E p \in Procs :
            /\ pc[p] = "r_loop"
            /\ \/ /\ InLoop(p) /\ addrs[p][idx[p]] = k
                  /\ Tagged(k) => /\ Len(calls'[p]) = Len(calls[p]) + 1
                                  /\ ~ calls'[p][Len(calls'[p])].failed
               \/ ~ InLoop(p) /\ k \notin Range(addrs[p])]_vars

\* The only lookup of the last call failed, and its spec still has the
\* target an earlier call stored.
C8_Witness ==
  /\ ~ ResolveInProgress
  /\ Len(lastCalls) = 1 /\ lastCalls[1].failed
  /\ LET addr == lastAddrs[lastCalls[1].at] IN
       addr \in DOMAIN resolved /\ resolved[addr] # << >>

\* C9 as stated: when a Resolve call returns that had the input list and
\* the Resolver results of the call before it, a result of Addresses after
\* it is the same sequence as a result of Addresses before it.
C9_SameSequence ==
  [][\A p \in Procs :
       (Returns(p) /\ addrs[p] = lastAddrs /\ calls[p] = lastCalls) =>
         \A s1 \in Flattenings(committed) : \A s2 \in Flattenings(resolved') :
           s1 = s2]_vars

\* C9 amended: such a call leaves the cache as the call before it left it,
\* so the results Addresses can return are the same ones: equal up to the
\* order in which the keys are flattened.
C9_SameCache ==
  [][\A p \in Procs :
       (Returns(p) /\ addrs[p] = lastAddrs /\ calls[p] = lastCalls) =>
         /\ resolved' = committed
         /\ Flattenings(resolved') = Flattenings(committed)]_vars

\* A call is about to return that repeated the call before it, with a
\* successful lookup, and leaves two keys in the cache.
C9_Witness ==
  \E p \in Procs :
    /\ pc[p] = "r_ret"
    /\ addrs[p] = lastAddrs /\ calls[p] = lastCalls
    /\ Len(calls[p]) >= 1
    /\ \E j \in 1..Len(calls[p]) : ~ calls[p][j].failed /\ calls[p][j].hosts # << >>
    /\ Cardinality(DOMAIN resolved) >= 2

\* C10: what a Resolve call returned is the nil error, whatever its
\* lookups did.
C10_ResolveReturnsNil ==
  \A p \in Procs : ret[p].op = "Resolve" => ret[p].err = "nil"

\* A call has returned nil though one of its lookups failed.
C10_Witness ==
  \E p \in Procs :
    /\ pc[p] = "returned" /\ ret[p].op = "Resolve" /\ ret[p].err = "nil"
    /\ \E j \in 1..Len(lastCalls) : lastCalls[j].failed

\* The goroutines inside a Resolve cycle: the range loop, the pruning, the
\* return.
InCycle == { p \in Procs : pc[p] \in {"r_loop", "r_ret"} }

\* C11: Resolve calls are serialized: at most one goroutine is inside a
\* Resolve cycle and it holds the mutex; a cycle starts from the cache that
\* the cycle before it left at its return; and while a cycle runs, only its
\* goroutine changes the cache, until it has pruned and returned.  So the
\* cache is what running the calls one after the other, in the order in
\* which they took the mutex, gives.
C11_ResolveSerialized ==
  /\ [](/\ Cardinality(InCycle) <= 1
        /\ \A p \in InCycle : mu = p)
  /\ [][/\ \A p \in Procs :
             (pc[p] = "r_lock" /\ pc'[p] = "r_loop") =>
                (InCycle = {} /\ resolved = committed /\ resolved' = resolved)
        /\ \A p \in InCycle :
             /\ InCycle' \subseteq {p}
             /\ \A q \in Procs \ {p} : pc'[q] # pc[q] => resolved' = resolved
             /\ (pc[p] = "r_ret" /\ pc'[p] # "r_ret") =>
                  (pc'[p] = "returned" /\ mu' = 0 /\ committed' = resolved)
        /\ resolved' # resolved => InCycle # {}]_vars

\* One goroutine is in the middle of its range loop while the Resolve call
\* of the other waits for the mutex.
C11_Witness ==
  \E p, q \in Procs :
    /\ pc[p] = "r_loop" /\ idx[p] = 2 /\ Len(addrs[p]) = 2
    /\ resolved # committed
    /\ pc[q] = "r_lock" /\ addrs[q] # << >>

\* The entries of p's input list that its range loop has gone past.
Done(p) == 1..(idx[p] - 1)

\* The invocations p's Resolve call has made so far for entry n.
CallsAt(p, n) == { j \in 1..Len(calls[p]) : calls[p][j].at = n }

\* C12: when the ctx of a Resolve call is cancelled during a lookup, that
\* lookup takes the failure path and the cycle goes on: the Resolver is
\* invoked for every tagged entry after it, every literal entry after it is
\* stored, and the call returns only after the loop has gone through the
\* whole list and the pruning has run.
C12_CancelDoesNotStopCycle ==
  \A p \in Procs : (pc[p] \in {"r_loop", "r_ret"} /\ cancelled[p] # 0) =>
    LET c == cancelled[p] IN
      /\ c \in Done(p)
      /\ Tagged(addrs[p][c])
      /\ \E j \in CallsAt(p, c) : calls[p][j].failed
      /\ \A n \in Done(p) : n > c =>
           IF Tagged(addrs[p][n])
             THEN CallsAt(p, n) # {}
             ELSE /\ addrs[p][n] \in DOMAIN resolved
                  /\ resolved[addrs[p][n]] = << addrs[p][n] >>
      /\ pc[p] = "r_ret" =>
           /\ idx[p] = Len(addrs[p]) + 1
           /\ Len(calls[p]) = NumTagged(addrs[p])
           /\ DOMAIN resolved \subseteq Range(addrs[p])

\* The ctx was cancelled during the lookup of the first of two entries; the
\* second entry was looked up all the same and the pruning removed a key.
C12_Witness ==
  /\ pc[1] = "r_ret" /\ cancelled[1] = 1
  /\ Len(addrs[1]) = 2 /\ Len(calls[1]) = 2
  /\ ~ calls[1][2].failed
  /\ DOMAIN committed \ Range(addrs[1]) # {}

Orderings(S) ==
  { o \in [1..Cardinality(S) -> S] :
      \A i, j \in 1..Cardinality(S) : o[i] = o[j] => i = j }

\* The slices of m one after the other, for the first n keys in order o.
RECURSIVE ConcatInOrder(_, _, _)
ConcatInOrder(m, o, n) ==
  IF n = 0 THEN << >> ELSE ConcatInOrder(m, o, n - 1) \o m[o[n]]

RECURSIVE SumOfLens(_)
SumOfLens(m) ==
  IF DOMAIN m = {} THEN 0
  ELSE LET k == CHOOSE x \in DOMAIN m : TRUE
       IN Len(m[k]) + SumOfLens(MapDelete(m, {k}))

\* C14: what Addresses returns is the targets of the keys of the cache put
\* one after the other: each key contributes its stored sequence once, as
\* one block and in the order in which the last successful lookup returned
\* it; nothing is removed, so the length is the sum of the lengths; and
\* every order of the keys can come out.
C14_AddressesConcatenates ==
  \A p \in Procs : pc[p] = "a_ret" =>
    /\ \E o \in Orderings(DOMAIN resolved) :
         result[p] = ConcatInOrder(resolved, o, Cardinality(DOMAIN resolved))
    /\ Len(result[p]) = SumOfLens(resolved)
    /\ \A k \in DOMAIN resolved : resolved[k] = lastGood[k]
    /\ \A o \in Orderings(DOMAIN resolved) :
         ConcatInOrder(resolved, o, Cardinality(DOMAIN resolved))
            \in Flattenings(resolved)

\* Two specs each resolved to the same two hosts: Addresses returns four
\* targets, each pair in the order the Resolver gave.
C14_Witness ==
  /\ pc[1] = "a_ret"
  /\ Cardinality(DOMAIN resolved) = 2
  /\ \A k \in DOMAIN resolved : resolved[k] = << <<"b">>, <<"c">> >>
  /\ Len(result[1]) = 4

\* The number of failed invocations in log cs.
NumFailed(cs) == Cardinality({ j \in 1..Len(cs) : cs[j].failed })

\* The lookups, and the failed lookups, of the Resolve call in progress.
LookupsInCycle == IF InCycle = {} THEN 0
                  ELSE Len(calls[CHOOSE p \in InCycle : TRUE])

FailuresInCycle == IF InCycle = {} THEN 0
                   ELSE NumFailed(calls[CHOOSE p \in InCycle : TRUE])

\* C15: the lookup counter is the number of tagged entries of all returned
\* Resolve calls plus the lookups of the call in progress, the failure
\* counter likewise for failed lookups; so each call adds its number of
\* tagged entries to the one and its number of failed lookups to the other;
\* the counters never decrease and failures never exceed lookups.
C15_CountersFollowLookups ==
  /\ [](/\ lookups = wantLookups + LookupsInCycle
        /\ failures = wantFailures + FailuresInCycle
        /\ failures <= lookups)
  /\ [][/\ lookups' >= lookups
        /\ failures' >= failures
        /\ \A p \in Procs : Returns(p) =>
             /\ Len(calls[p]) = NumTagged(addrs[p])
             /\ lookups' = wantLookups + NumTagged(addrs[p])
             /\ failures' = wantFailures + NumFailed(calls[p])]_vars

\* After some Resolve calls the counters show three lookups of which some,
\* not all, failed.
C15_Witness ==
  /\ scenario = "observed" /\ ~ ResolveInProgress
  /\ lookups = 3 /\ failures \in 1..2

\* C16: a tagged entry is split at its first "+" only: the query type
\* handed to the Resolver holds no "+", the name is all that follows the
\* first "+", every tagged entry is handed over whatever its query type,
\* and a result is stored under the whole entry.
C16_SplitAtFirstPlus ==
  \A p \in Procs : pc[p] \in {"r_loop", "r_ret"} =>
    /\ \A j \in 1..Len(calls[p]) :
         LET c == calls[p][j]
             addr == addrs[p][c.at]
         IN /\ "+" \notin Range(c.qtype)
            /\ addr = c.qtype \o << "+" >> \o c.name
            /\ (~ c.failed /\ pc[p] = "r_loop" /\ j = Len(calls[p])) =>
                  (addr \in DOMAIN resolved /\ resolved[addr] = c.hosts)
    /\ \A n \in Done(p) :
         (\E k \in 1..Len(addrs[p][n]) : addrs[p][n][k] = "+") =>
            Cardinality(CallsAt(p, n)) = 1
    /\ DOMAIN resolved \subseteq (Range(addrs[p]) \cup DOMAIN committed)

\* A spec with two "+" was looked up with query type "s" and name "a+b",
\* and its hosts are stored under the whole spec.
C16_Witness ==
  /\ pc[1] = "r_loop" /\ Len(calls[1]) = 1
  /\ calls[1][1].qtype = << "s" >>
  /\ calls[1][1].name = << "a", "+", "b" >>
  /\ ~ calls[1][1].failed /\ calls[1][1].hosts # << >>
  /\ << "s", "+", "a", "+", "b" >> \in DOMAIN resolved
  /\ << "a", "+", "b" >> \notin DOMAIN resolved

\* C17: when a Resolve call returns, the keys of the cache are exactly the
\* literal entries of its list, the tagged entries that had a successful
\* lookup in this call, and the tagged entries all of whose lookups failed
\* in this call but which were keys before the call.
C17_KeySetAfterRefresh ==
  [][\A p \in Procs : Returns(p) =>
       LET as == addrs[p]
           cs == calls[p]
           literals == { as[n] : n \in { i \in 1..Len(as) : ~ Tagged(as[i]) } }
           succeeded == { as[cs[j].at] :
                            j \in { i \in 1..Len(cs) : ~ cs[i].failed } }
           onlyFailed == { as[n] : n \in { i \in 1..Len(as) : Tagged(as[i]) } }
                            \ succeeded
       IN DOMAIN resolved' =
            literals \cup succeeded \cup (onlyFailed \cap DOMAIN committed)]_vars

\* A call with a literal entry and a tagged entry whose lookup failed is
\* about to return: the tagged entry was a key before and stays one, and
\* another key of before is gone.
C17_Witness ==
  /\ scenario = "observed" /\ pc[1] = "r_ret"
  /\ Len(addrs[1]) = 2 /\ Len(calls[1]) = 1
  /\ calls[1][1].failed
  /\ addrs[1][calls[1][1].at] \in DOMAIN resolved
  /\ DOMAIN committed \ DOMAIN resolved # {}
  /\ DOMAIN resolved \ DOMAIN committed # {}

\* C18: when a tagged spec stands several times in one list, the Resolver
\* is invoked once for each occurrence, and if any of these lookups
\* succeeded the cache holds the result of the last one that did: a failure
\* after a success leaves the new result of that success in place.
C18_DuplicateSpecs ==
  \A p \in Procs : pc[p] \in {"r_loop", "r_ret"} =>
    \A m, n \in Done(p) :
      (m < n /\ addrs[p][m] = addrs[p][n] /\ Tagged(addrs[p][n])) =>
        LET addr == addrs[p][n]
            occ == { i \in Done(p) : addrs[p][i] = addr }
            inv == { j \in 1..Len(calls[p]) : addrs[p][calls[p][j].at] = addr }
            ok == { j \in inv : ~ calls[p][j].failed }
        IN /\ Cardinality(inv) = Cardinality(occ)
           /\ \A i \in occ : Cardinality(CallsAt(p, i)) = 1
           /\ ok # {} =>
                LET last == CHOOSE j \in ok : \A j2 \in ok : j2 <= j
                IN addr \in DOMAIN resolved
                   /\ resolved[addr] = calls[p][last].hosts
           /\ ok = {} =>
                IF addr \in DOMAIN committed
                  THEN addr \in DOMAIN resolved
                       /\ resolved[addr] = committed[addr]
                  ELSE addr \notin DOMAIN resolved

\* A spec stands twice in the list: its first lookup succeeded with hosts
\* that differ from the cached ones, its second failed, and the cache holds
\* the hosts of the first.
C18_Witness ==
  /\ pc[1] = "r_ret" /\ Len(addrs[1]) = 2 /\ Len(calls[1]) = 2
  /\ addrs[1][1] = addrs[1][2]
  /\ ~ calls[1][1].failed /\ calls[1][2].failed
  /\ addrs[1][1] \in DOMAIN committed
  /\ committed[addrs[1][1]] # calls[1][1].hosts
  /\ resolved[addrs[1][1]] = calls[1][1].hosts

InCall(p) == pc[p] \in {"r_lock", "r_loop", "r_ret", "a_lock", "a_read", "a_ret"}

\* C19: every Resolve call and every Addresses call returns, and the mutex
\* is held exactly while a goroutine is between its Lock and its return, so
\* it is free whenever no call is in progress.
C19_CallsReturn ==
  /\ \A p \in Procs : InCall(p) ~> (pc[p] = "returned")
  /\ [](/\ (\A p \in Procs : ~ InCall(p)) => mu = 0
        /\ mu # 0 => pc[mu] \in {"r_loop", "r_ret", "a_read", "a_ret"})

\* A Resolve call has returned while the call of the other goroutine, which
\* waited for the mutex, is in its range loop.
C19_Witness ==
  \E p, q \in Procs :
    /\ pc[p] = "returned" /\ ret[p].op = "Resolve"
    /\ pc[q] = "r_loop" /\ mu = q /\ idx[q] = 2

====
